---------------------------- MODULE Spec2Model ----------------------------
(***************************************************************************)
(* Model of src/data2.js: the phonetic confusion analysis.                 *)
(*                                                                         *)
(* The script reads name,value records, computes a complexity per name,    *)
(* buckets the records by their double-metaphone code, turns every bucket  *)
(* of two or more records into a scored cluster and sorts the clusters by  *)
(* score, descending.                                                      *)
(*                                                                         *)
(* Numbers.  JavaScript numbers are modelled as exact fractions            *)
(* [n |-> numerator, d |-> denominator] in lowest terms, with d = 0 for    *)
(* NaN.  Rounding of doubles is not modelled.  Record values are           *)
(* non-negative integers, so the only non-finite quotient the script can   *)
(* form is 0/0 = NaN (a zero maximum forces a zero minimum; a zero longer  *)
(* length forces a zero edit distance).                                    *)
(*                                                                         *)
(* Names are sequences of one-character strings.                           *)
(***************************************************************************)
EXTENDS Integers, Sequences, FiniteSets, TLC

VARIABLES entries, phoneticMap, clusters, pc, cursor, args, ret

vars == <<entries, phoneticMap, clusters, pc, cursor, args, ret>>

---------------------------------------------------------------------------
(* Bounds of the model.                                                    *)

\* Longest input of the general pipeline specification.
MaxEntries == 4

\* Most repeated records in the input of the pairs specification.
MaxPairs == 4

\* Longest input of the single-bucket specification.
MaxBucket == 7

\* Longest argument of the diversity specification.
MaxNames == 2

---------------------------------------------------------------------------
(* JavaScript numbers.                                                     *)

NaN == [n |-> 0, d |-> 0]

IsNaN(x) == x.d = 0

Abs(k) == IF k < 0 THEN -k ELSE k

RECURSIVE Gcd(_, _)
Gcd(a, b) == IF b = 0 THEN a ELSE Gcd(b, a % b)

\* The number n/d, d >= 0; 0/0 is NaN.
Frac(n, d) ==
  IF d = 0 THEN NaN
  ELSE LET g == Gcd(Abs(n), d) IN [n |-> n \div g, d |-> d \div g]

Num(k) == [n |-> k, d |-> 1]

FAdd(x, y) ==
  IF IsNaN(x) \/ IsNaN(y) THEN NaN ELSE Frac(x.n * y.d + y.n * x.d, x.d * y.d)

FSub(x, y) ==
  IF IsNaN(x) \/ IsNaN(y) THEN NaN ELSE Frac(x.n * y.d - y.n * x.d, x.d * y.d)

FMul(x, y) ==
  IF IsNaN(x) \/ IsNaN(y) THEN NaN ELSE Frac(x.n * y.n, x.d * y.d)

\* x / y for y >= 0: a zero divisor is only ever met with a zero dividend.
FDiv(x, y) ==
  IF IsNaN(x) \/ IsNaN(y) THEN NaN ELSE Frac(x.n * y.d, x.d * y.n)

\* <, <=, = on numbers: every comparison with NaN is false.
FLt(x, y) == ~IsNaN(x) /\ ~IsNaN(y) /\ x.n * y.d < y.n * x.d

FLe(x, y) == ~IsNaN(x) /\ ~IsNaN(y) /\ x.n * y.d <= y.n * x.d

FEq(x, y) == ~IsNaN(x) /\ ~IsNaN(y) /\ x.n * y.d = y.n * x.d

\* Math.min and Math.max of two numbers: NaN if either is NaN.
MathMin(x, y) ==
  IF IsNaN(x) \/ IsNaN(y) THEN NaN ELSE IF FLe(x, y) THEN x ELSE y

MathMax(x, y) ==
  IF IsNaN(x) \/ IsNaN(y) THEN NaN ELSE IF FLe(x, y) THEN y ELSE x

\* Math.max(...xs) and Math.min(...xs) of a non-empty list of numbers.
RECURSIVE MathMaxAll(_)
MathMaxAll(xs) ==
  IF Len(xs) = 1 THEN xs[1] ELSE MathMax(xs[1], MathMaxAll(Tail(xs)))

RECURSIVE MathMinAll(_)
MathMinAll(xs) ==
  IF Len(xs) = 1 THEN xs[1] ELSE MathMin(xs[1], MathMinAll(Tail(xs)))

\* xs.reduce((a, b) => a + b, 0)
RECURSIVE SumAll(_)
SumAll(xs) == IF xs = <<>> THEN Num(0) ELSE FAdd(xs[1], SumAll(Tail(xs)))

---------------------------------------------------------------------------
(* The names and values the inputs are drawn from.                         *)

St == <<"s", "t">>
Set == <<"s", "e", "t">>
Soto == <<"s", "o", "t", "o">>
Bo == <<"b", "o">>
Be == <<"b", "e">>
Mo == <<"m", "o">>
Lo == <<"l", "o">>

Names == {St, Set, Soto, Bo, Be, Mo, Lo}

\* Names and values of the general pipeline specification.
GeneralNames == {St, Set, Bo}
GeneralValues == {0, 2}

\* Names and values of the pairs specification: four phonetic codes.
PairNames == {St, Bo, Mo, Lo}
PairValues == {0, 1}

\* Records of the single-bucket specification: one phonetic code.
BucketRecords == {<<St, 1>>, <<Set, 2>>, <<Soto, 0>>}

---------------------------------------------------------------------------
(* The libraries the script calls.                                         *)

Vowels == {"a", "e", "i", "o", "u", "y"}

LowerCaseLetters ==
  {"a", "b", "c", "d", "e", "f", "g", "h", "i", "j", "k", "l", "m",
   "n", "o", "p", "q", "r", "s", "t", "u", "v", "w", "x", "y", "z"}

\* natural.JaroWinklerDistance(name, 'standard'): the similarity, in [0,1].
\*   "st":   2 matches, jaro = (2/2 + 2/8 + 1)/3 = 3/4,   prefix 2: 4/5
\*   "set":  2 matches, jaro = (2/3 + 2/8 + 1)/3 = 23/36, prefix 1: 27/40
\*   "soto": 2 matches, jaro = (2/4 + 2/8 + 1)/3 = 7/12,  prefix 1: 5/8
\*   a name sharing no letter with "standard": 0
JaroWinklerDistance(name) ==
  CASE name = St -> Frac(4, 5)
    [] name = Set -> Frac(27, 40)
    [] name = Soto -> Frac(5, 8)
    [] OTHER -> Num(0)

\* doubleMetaphone(name), for names over the letters b, l, m, s, t and the
\* vowels: a leading vowel encodes as A, any other vowel is skipped, B
\* encodes as P, and L, M, S, T as themselves; the primary and the secondary
\* code agree.
RECURSIVE Metaphone(_, _)
Metaphone(name, first) ==
  IF name = <<>> THEN ""
  ELSE LET c == Head(name)
           s == CASE c \in Vowels -> IF first THEN "A" ELSE ""
                  [] c = "b" -> "P"
                  [] c = "l" -> "L"
                  [] c = "m" -> "M"
                  [] c = "s" -> "S"
                  [] c = "t" -> "T"
                  [] OTHER -> ""
       IN s \o Metaphone(Tail(name), FALSE)

doubleMetaphone(name) == <<Metaphone(name, TRUE), Metaphone(name, TRUE)>>

Min2(a, b) == IF a <= b THEN a ELSE b

Max2(a, b) == IF a >= b THEN a ELSE b

\* The edit distance of a and b with unit costs.
RECURSIVE EditDistance(_, _)
EditDistance(a, b) ==
  IF a = <<>> THEN Len(b)
  ELSE IF b = <<>> THEN Len(a)
  ELSE Min2(Min2(EditDistance(Tail(a), b) + 1,
                 EditDistance(a, Tail(b)) + 1),
            EditDistance(Tail(a), Tail(b))
              + (IF Head(a) = Head(b) THEN 0 ELSE 1))

\* The edit distances between the names of the model, computed once.
EditDistances == [a \in Names |-> [b \in Names |-> EditDistance(a, b)]]

\* natural.LevenshteinDistance(a, b)
LevenshteinDistance(a, b) ==
  IF a \in Names /\ b \in Names THEN EditDistances[a][b] ELSE EditDistance(a, b)

---------------------------------------------------------------------------
(* calculateComplexity                                                     *)

\* (name.match(/[aeiouy]+/gi) || []).length: the maximal runs of vowels.
RECURSIVE VowelRuns(_, _)
VowelRuns(name, inRun) ==
  IF name = <<>> THEN 0
  ELSE IF Head(name) \in Vowels
       THEN (IF inRun THEN 0 ELSE 1) + VowelRuns(Tail(name), TRUE)
       ELSE VowelRuns(Tail(name), FALSE)

\* [...name].filter(c => !/[a-z]/.test(c.toLowerCase())).length
NonStandardChars(name) ==
  Cardinality({k \in 1..Len(name) : name[k] \notin LowerCaseLetters})

calculateComplexity(name) ==
  LET length == MathMin(Num(1), Frac(Len(name), 10))
      syllableCount == Frac(VowelRuns(name, FALSE), 5)
      nonStandardChars == Frac(NonStandardChars(name), 3)
      orthoNeighbors == FSub(Num(1), JaroWinklerDistance(name))
      phoneticDensity == Num(0)
  IN SumAll(<<length, syllableCount, nonStandardChars, orthoNeighbors,
              phoneticDensity>>)

\* One parsed line of the input: name, value and the name's complexity.
MakeEntry(raw) ==
  [name |-> raw[1], value |-> raw[2], complexity |-> calculateComplexity(raw[1])]

\* The parsed lines of the input.
MakeEntries(raws) == [k \in 1..Len(raws) |-> MakeEntry(raws[k])]

---------------------------------------------------------------------------
(* calculateOrthographicDiversity                                          *)

\* Mutant: the first six names are compared.
Slice6(names) == SubSeq(names, 1, Min2(6, Len(names)))

\* names.slice(0, 5)
Slice5(names) == SubSeq(names, 1, Min2(5, Len(names)))

\* The pairs (i, j), i < j, the two loops visit.
SamplePairs(samples) ==
  {p \in (1..Len(samples)) \X (1..Len(samples)) : p[1] < p[2]}

\* One term of totalDiff.
PairDiff(a, b) ==
  FDiv(Num(LevenshteinDistance(a, b)), Num(Max2(Len(a), Len(b))))

\* totalDiff after the pairs of ps have been added.
RECURSIVE TotalDiff(_, _)
TotalDiff(samples, ps) ==
  IF ps = {} THEN Num(0)
  ELSE LET p == CHOOSE q \in ps : TRUE
       IN FAdd(PairDiff(samples[p[1]], samples[p[2]]),
               TotalDiff(samples, ps \ {p}))

\* Mutant: the unguarded average totalDiff / comparisons.
PairAverageUnguarded(samples) ==
  FDiv(TotalDiff(samples, SamplePairs(samples)),
       Num(Cardinality(SamplePairs(samples))))

\* The loops and the return of calculateOrthographicDiversity over samples.
PairAverage(samples) ==
  LET totalDiff == TotalDiff(samples, SamplePairs(samples))
      comparisons == Cardinality(SamplePairs(samples))
  IN IF comparisons > 0 THEN FDiv(totalDiff, Num(comparisons)) ELSE Num(0)

calculateOrthographicDiversity(names) == PairAverage(Slice5(names))

---------------------------------------------------------------------------
(* calculateConfusionScore                                                 *)

\* group.map(e => e.name), group.map(e => e.value), group.map(e => e.complexity)
NamesOf(group) == [k \in 1..Len(group) |-> group[k].name]

ValuesOf(group) == [k \in 1..Len(group) |-> Num(group[k].value)]

ComplexitiesOf(group) == [k \in 1..Len(group) |-> group[k].complexity]

\* Mutant: the complexity factor without its clamp.
MaxComplexity(group) == MathMaxAll(ComplexitiesOf(group))

ComplexityFactor(group) ==
  MathMin(Num(1), MathMaxAll(ComplexitiesOf(group)))

ValueSpread(group) ==
  FSub(Num(1), FDiv(MathMinAll(ValuesOf(group)),
                    MathMaxAll(ValuesOf(group))))

\* The score components of a group.
Factors(group) ==
  [sizePenalty |-> MathMin(Num(1), Frac(Len(group), 5)),
   complexity |-> ComplexityFactor(group),
   valueSpread |-> ValueSpread(group),
   orthoDiversity |-> calculateOrthographicDiversity(NamesOf(group))]

\* The weighted average of the components.
Weighted(f) ==
  FAdd(FAdd(FAdd(FMul(f.sizePenalty, Frac(3, 10)),
                 FMul(f.complexity, Frac(4, 10))),
            FMul(f.valueSpread, Frac(2, 10))),
       FMul(f.orthoDiversity, Frac(1, 10)))

calculateConfusionScore(group) == Weighted(Factors(group))

---------------------------------------------------------------------------
(* The phonetic index and the clusters.                                    *)

\* doubleMetaphone(entry.name).join('|')
CodeOf(name) == doubleMetaphone(name)[1] \o "|" \o doubleMetaphone(name)[2]

\* phoneticMap is a Map: its keys in insertion order, each with its group.
HasCode(map, code) == \E k \in 1..Len(map) : map[k].code = code

\* Mutant: the entry is put in front of its group.
IndexEntryUnshift(map, entry) ==
  LET code == CodeOf(entry.name)
      m == IF HasCode(map, code) THEN map
           ELSE Append(map, [code |-> code, group |-> <<>>])
  IN [k \in 1..Len(m) |->
        IF m[k].code = code
        THEN [code |-> code, group |-> <<entry>> \o m[k].group]
        ELSE m[k]]

\* Mutant: an entry whose code is already a key is dropped.
IndexEntryFirstOnly(map, entry) ==
  LET code == CodeOf(entry.name)
  IN IF HasCode(map, code) THEN map
     ELSE Append(map, [code |-> code, group |-> <<entry>>])

\* The body of entries.forEach: the map after one more entry.
IndexEntryInto(map, entry) ==
  LET code == CodeOf(entry.name)
      m == IF HasCode(map, code) THEN map
           ELSE Append(map, [code |-> code, group |-> <<>>])
  IN [k \in 1..Len(m) |->
        IF m[k].code = code
        THEN [code |-> code, group |-> Append(m[k].group, entry)]
        ELSE m[k]]

\* The object pushed for a group.
MakeCluster(code, group) ==
  [names |-> NamesOf(group),
   entries |-> group,
   phoneticCode |-> code,
   avgValue |-> FDiv(SumAll(ValuesOf(group)), Num(Len(group))),
   avgComplexity |-> FDiv(SumAll(ComplexitiesOf(group)), Num(Len(group))),
   confusionScore |-> calculateConfusionScore(group)]

\* Mutant: every bucket becomes a cluster.
BuildClusterAny(cs, bucket) ==
  IF Len(bucket.group) > 0
  THEN Append(cs, MakeCluster(bucket.code, bucket.group))
  ELSE cs

\* Mutant: a cluster keeps only the first two records of its bucket.
BuildClusterTwo(cs, bucket) ==
  IF Len(bucket.group) > 1
  THEN Append(cs, MakeCluster(bucket.code, SubSeq(bucket.group, 1, 2)))
  ELSE cs

\* The body of the loop over phoneticMap: the clusters after one more bucket.
BuildClusterInto(cs, bucket) ==
  IF Len(bucket.group) > 1
  THEN Append(cs, MakeCluster(bucket.code, bucket.group))
  ELSE cs

\* The whole index of a list of entries, and the clusters of a whole map.
RECURSIVE IndexAll(_, _)
IndexAll(map, es) ==
  IF es = <<>> THEN map ELSE IndexAll(IndexEntryInto(map, es[1]), Tail(es))

RECURSIVE BuildAll(_, _)
BuildAll(cs, map) ==
  IF map = <<>> THEN cs ELSE BuildAll(BuildClusterInto(cs, map[1]), Tail(map))

---------------------------------------------------------------------------
(* clusters.sort((a, b) => b.confusionScore - a.confusionScore)            *)

\* The comparator's verdict on (a, b): the sign of b.score - a.score.  A NaN
\* difference is read as +0 by Array.prototype.sort.
Compare(a, b) ==
  LET v == FSub(b.confusionScore, a.confusionScore)
  IN IF IsNaN(v) THEN 0 ELSE IF v.n < 0 THEN -1 ELSE IF v.n > 0 THEN 1 ELSE 0

\* ECMA-262's consistent comparator, over the elements being sorted.
ConsistentComparator(cs) ==
  LET I == 1..Len(cs)
      lt(a, b) == Compare(cs[a], cs[b]) < 0
      eq(a, b) == Compare(cs[a], cs[b]) = 0
      gt(a, b) == Compare(cs[a], cs[b]) > 0
  IN /\ \A a \in I : eq(a, a)
     /\ \A a, b \in I : (eq(a, b) => eq(b, a)) /\ (lt(a, b) <=> gt(b, a))
     /\ \A a, b, c \in I :
          /\ eq(a, b) /\ eq(b, c) => eq(a, c)
          /\ lt(a, b) /\ lt(b, c) => lt(a, c)
          /\ gt(a, b) /\ gt(b, c) => gt(a, c)

\* c put into the sorted list s behind every element it does not precede.
RECURSIVE InsertSorted(_, _)
InsertSorted(s, c) ==
  IF s = <<>> THEN <<c>>
  ELSE IF Compare(c, s[Len(s)]) < 0
       THEN Append(InsertSorted(SubSeq(s, 1, Len(s) - 1), c), s[Len(s)])
       ELSE Append(s, c)

RECURSIVE StableSort(_)
StableSort(cs) ==
  IF cs = <<>> THEN <<>>
  ELSE InsertSorted(StableSort(SubSeq(cs, 1, Len(cs) - 1)), cs[Len(cs)])

Reorderings(cs) ==
  {[k \in 1..Len(cs) |-> cs[p[k]]] :
     p \in {q \in [1..Len(cs) -> 1..Len(cs)] :
              \A a, b \in 1..Len(cs) : q[a] = q[b] => a = b}}

\* The orders sort may leave: the stable sorted order under a consistent
\* comparator, an implementation-defined order of the same elements
\* otherwise.
SortResults(cs) ==
  IF ConsistentComparator(cs) THEN {StableSort(cs)} ELSE Reorderings(cs)

---------------------------------------------------------------------------
(* The script, step by step.                                               *)

SeqsUpTo(S, n) == UNION {[1..m -> S] : m \in 0..n}

\* s with every element written twice in a row.
Doubled(s) == [k \in 1..(2 * Len(s)) |-> s[(k + 1) \div 2]]

Start(es) ==
  /\ entries = es
  /\ phoneticMap = <<>>
  /\ clusters = <<>>
  /\ pc = "index"
  /\ cursor = 1
  /\ args = <<>>
  /\ ret = NaN

\* Any input of up to MaxEntries records.
Init ==
  \E raw \in SeqsUpTo(GeneralNames \X GeneralValues, MaxEntries) :
    Start(MakeEntries(raw))

\* An input of up to MaxPairs records, each on two consecutive lines.
InitPairs ==
  \E raw \in SeqsUpTo(PairNames \X PairValues, MaxPairs) :
    Start(MakeEntries(Doubled(raw)))

\* An input of up to MaxBucket records that share one phonetic code.
InitBucket ==
  \E raw \in SeqsUpTo(BucketRecords, MaxBucket) :
    Start(MakeEntries(raw))

\* entries.forEach, one entry.
IndexEntry ==
  /\ pc = "index"
  /\ cursor <= Len(entries)
  /\ phoneticMap' = IndexEntryInto(phoneticMap, entries[cursor])
  /\ cursor' = cursor + 1
  /\ UNCHANGED <<entries, clusters, pc, args, ret>>

\* forEach is through: the loop over phoneticMap starts.
IndexDone ==
  /\ pc = "index"
  /\ cursor > Len(entries)
  /\ pc' = "build"
  /\ cursor' = 1
  /\ UNCHANGED <<entries, phoneticMap, clusters, args, ret>>

\* for (const [code, group] of phoneticMap), one bucket.
BuildCluster ==
  /\ pc = "build"
  /\ cursor <= Len(phoneticMap)
  /\ clusters' = BuildClusterInto(clusters, phoneticMap[cursor])
  /\ cursor' = cursor + 1
  /\ UNCHANGED <<entries, phoneticMap, pc, args, ret>>

\* The loop over phoneticMap is through.
BuildDone ==
  /\ pc = "build"
  /\ cursor > Len(phoneticMap)
  /\ pc' = "sort"
  /\ UNCHANGED <<entries, phoneticMap, clusters, cursor, args, ret>>

\* clusters.sort(...)
Sort ==
  /\ pc = "sort"
  /\ clusters' \in SortResults(clusters)
  /\ pc' = "done"
  /\ UNCHANGED <<entries, phoneticMap, cursor, args, ret>>

Next == IndexEntry \/ IndexDone \/ BuildCluster \/ BuildDone \/ Sort

Spec == Init /\ [][Next]_vars

SpecPairs == InitPairs /\ [][Next]_vars

SpecBucket == InitBucket /\ [][Next]_vars

---------------------------------------------------------------------------
(* calculateOrthographicDiversity on its own: a call and its return.       *)

InitDiversity ==
  /\ entries = <<>>
  /\ phoneticMap = <<>>
  /\ clusters = <<>>
  /\ pc = "call"
  /\ cursor = 1
  /\ args \in SeqsUpTo(Names, MaxNames)
  /\ ret = NaN

CallDiversity ==
  /\ pc = "call"
  /\ ret' = calculateOrthographicDiversity(args)
  /\ pc' = "returned"
  /\ UNCHANGED <<entries, phoneticMap, clusters, cursor, args>>

SpecDiversity == InitDiversity /\ [][CallDiversity]_vars

---------------------------------------------------------------------------
(* What the properties speak of.                                           *)

\* The entries indexed so far.
Indexed == IF pc = "index" THEN SubSeq(entries, 1, cursor - 1) ELSE entries

\* The entries of es with the given phonetic code, in the order of es.
WithCode(es, code) == SelectSeq(es, LAMBDA e : CodeOf(e.name) = code)

\* The position in es of the first entry with the given code.
FirstWithCode(es, code) ==
  CHOOSE k \in 1..Len(es) :
    /\ CodeOf(es[k].name) = code
    /\ \A j \in 1..(k - 1) : CodeOf(es[j].name) # code

\* The clusters as the loop over phoneticMap leaves them, before the sort.
Built == BuildAll(<<>>, phoneticMap)

\* The member records of the clusters, cluster after cluster.
RECURSIVE Flatten(_)
Flatten(cs) == IF cs = <<>> THEN <<>> ELSE cs[1].entries \o Flatten(Tail(cs))

\* The position of the cluster with the given code.
PositionOf(cs, code) == CHOOSE k \in 1..Len(cs) : cs[k].phoneticCode = code

InUnitInterval(x) == FLe(Num(0), x) /\ FLe(x, Num(1))

\* The reorderings of g that leave its first five members in place.
TailReorderings(g) ==
  LET tail == 6..Len(g)
  IN {[k \in 1..Len(g) |-> IF k \in tail THEN g[p[k]] ELSE g[k]] :
        p \in {q \in [tail -> tail] : \A a, b \in tail : q[a] = q[b] => a = b}}

SingletonBuckets == {k \in 1..Len(phoneticMap) : Len(phoneticMap[k].group) = 1}

---------------------------------------------------------------------------
(* The properties.                                                         *)

\* C1: every cluster has at least 2 members, and once the clusters are
\* built no cluster carries the code of a bucket that holds one record.
C1_AtLeastTwoMembers ==
  /\ \A k \in 1..Len(clusters) :
       Len(clusters[k].entries) >= 2 /\ Len(clusters[k].names) >= 2
  /\ pc \in {"sort", "done"} =>
       \A b \in SingletonBuckets : \A k \in 1..Len(clusters) :
         clusters[k].phoneticCode # phoneticMap[b].code

C1_Witness ==
  /\ pc = "done"
  /\ SingletonBuckets # {}
  /\ Len(clusters) >= 1

\* C2: a cluster whose member values are all 0 has valueSpread 0 and a
\* confusionScore that is a number.
C2_ZeroValuesFallBack ==
  \A k \in 1..Len(clusters) :
    (\A m \in 1..Len(clusters[k].entries) : clusters[k].entries[m].value = 0)
      => /\ ValueSpread(clusters[k].entries) = Num(0)
         /\ ~IsNaN(clusters[k].confusionScore)

C4_SortedDescending ==
  pc = "done" =>
    /\ Len(clusters) = Len(Built)
    /\ \A k \in 1..Len(Built) : \E m \in 1..Len(clusters) : clusters[m] = Built[k]
    /\ \A k \in 1..(Len(clusters) - 1) :
         FLe(clusters[k + 1].confusionScore, clusters[k].confusionScore)

\* C5: for a cluster of at least 2 members with non-negative values whose
\* maximum is positive, each of the four factors lies in [0,1] and
\* confusionScore = 0.30 sizePenalty + 0.40 complexityFactor
\* + 0.20 valueSpread + 0.10 orthoDiversity lies in [0,1].
C5_ScoreInUnitInterval ==
  \A k \in 1..Len(clusters) :
    LET g == clusters[k].entries
        f == Factors(g)
        score == clusters[k].confusionScore
    IN (/\ Len(g) >= 2
        /\ \A m \in 1..Len(g) : g[m].value >= 0
        /\ \E m \in 1..Len(g) : g[m].value > 0)
       => /\ InUnitInterval(f.sizePenalty)
          /\ InUnitInterval(f.complexity)
          /\ InUnitInterval(f.valueSpread)
          /\ InUnitInterval(f.orthoDiversity)
          /\ FEq(FMul(score, Num(100)),
                 FAdd(FAdd(FMul(Num(30), f.sizePenalty),
                           FMul(Num(40), f.complexity)),
                      FAdd(FMul(Num(20), f.valueSpread),
                           FMul(Num(10), f.orthoDiversity))))
          /\ InUnitInterval(score)

\* A scored cluster of more than 5 members, one of them with a complexity
\* above 1, whose values are not all 0.
C5_Witness ==
  \E k \in 1..Len(clusters) :
    LET g == clusters[k].entries
    IN /\ Len(g) > 5
       /\ \E m \in 1..Len(g) : g[m].value > 0
       /\ \E m \in 1..Len(g) : FLt(Num(1), g[m].complexity)
       /\ FLt(Num(0), Factors(g).valueSpread)
       /\ FLt(Num(0), Factors(g).orthoDiversity)

\* C6: every bucket holds exactly the indexed records of its code, in
\* input order, and the buckets are ordered by the input position of
\* their first record.
C6_IndexKeepsInputOrder ==
  /\ \A k \in 1..Len(Indexed) : HasCode(phoneticMap, CodeOf(Indexed[k].name))
  /\ \A b \in 1..Len(phoneticMap) :
       /\ phoneticMap[b].group # <<>>
       /\ phoneticMap[b].group = WithCode(Indexed, phoneticMap[b].code)
  /\ \A a, b \in 1..Len(phoneticMap) :
       a < b => FirstWithCode(Indexed, phoneticMap[a].code)
                  < FirstWithCode(Indexed, phoneticMap[b].code)

\* Two buckets, the records of the first interleaved with the second's.
C6_Witness ==
  /\ pc = "build"
  /\ Len(phoneticMap) = 2
  /\ Len(phoneticMap[1].group) >= 2
  /\ phoneticMap[1].group[1] # phoneticMap[1].group[2]
  /\ CodeOf(entries[2].name) = phoneticMap[2].code

\* C7: reordering the members of a cluster beyond the fifth leaves its
\* confusionScore as it is.
C7_ScoreIgnoresTailOrder ==
  \A k \in 1..Len(clusters) :
    \A g \in TailReorderings(clusters[k].entries) :
      calculateConfusionScore(g) = clusters[k].confusionScore

\* A scored cluster whose sixth and seventh members have different names.
C7_Witness ==
  \E k \in 1..Len(clusters) :
    /\ Len(clusters[k].entries) >= 7
    /\ clusters[k].entries[6].name # clusters[k].entries[7].name
    /\ ~IsNaN(clusters[k].confusionScore)

\* C8: the diversity of no name and of one name is 0; the diversity of two
\* names a, b is Levenshtein(a, b) / max(len(a), len(b)).
C8_DiversityOfFewNames ==
  pc = "returned" =>
    /\ Len(args) = 0 => ret = Num(0)
    /\ Len(args) = 1 => ret = Num(0)
    /\ Len(args) = 2 =>
         ret = Frac(LevenshteinDistance(args[1], args[2]),
                    Max2(Len(args[1]), Len(args[2])))

\* The diversity of two different names has been returned.
C8_Witness ==
  /\ pc = "returned"
  /\ Len(args) = 2
  /\ args[1] # args[2]
  /\ FLt(Num(0), ret)

\* C9: indexing the members of the built clusters, cluster after cluster,
\* and building clusters from that index gives the built clusters again.
C9_FilterIdempotent ==
  pc = "sort" => BuildAll(<<>>, IndexAll(<<>>, Flatten(clusters))) = clusters

\* Clusters have been built and a record with a code of its own was dropped.
C9_Witness ==
  /\ pc = "sort"
  /\ Len(clusters) >= 1
  /\ Len(Flatten(clusters)) < Len(entries)
  /\ \E k \in 1..Len(clusters) :
       clusters[k].entries[1] # clusters[k].entries[2]

\* C10: once the clusters are built, the records of a code that two or
\* more records share are the members of exactly one cluster, that of
\* their code; a record with a code of its own is in no cluster; no two
\* clusters share a code; and the sort keeps the number of clusters and
\* every cluster as built.
C10_ClustersPartitionCollisions ==
  pc \in {"sort", "done"} =>
    /\ \A i \in 1..Len(entries) :
         LET code == CodeOf(entries[i].name)
             same == WithCode(entries, code)
             holders == {k \in 1..Len(clusters) : clusters[k].phoneticCode = code}
             containing ==
               {k \in 1..Len(clusters) :
                  \E m \in 1..Len(clusters[k].entries) :
                    clusters[k].entries[m] = entries[i]}
         IN IF Len(same) >= 2
            THEN /\ Cardinality(holders) = 1
                 /\ containing = holders
                 /\ \A k \in holders : clusters[k].entries = same
            ELSE holders = {} /\ containing = {}
    /\ \A a, b \in 1..Len(clusters) :
         clusters[a].phoneticCode = clusters[b].phoneticCode => a = b
    /\ pc = "done" =>
         /\ Len(clusters) = Len(Built)
         /\ \A k \in 1..Len(Built) :
              \E m \in 1..Len(clusters) : clusters[m] = Built[k]

\* The sort is through, over a cluster of 3 records and beside a record
\* with a code of its own.
C10_Witness ==
  /\ pc = "done"
  /\ SingletonBuckets # {}
  /\ \E k \in 1..Len(clusters) : Len(clusters[k].entries) = 3

=============================================================================
